---------------------------- MODULE Spec2Model ----------------------------
(***************************************************************************)
(* The concierge agent of src/agent.py and its tools of src/tools.py.      *)
(*                                                                         *)
(* Python strings are TLA+ strings and the string operations the code uses *)
(* (len, slicing, +, in, lower, strip, replace, startswith, json.dumps,    *)
(* json.loads, str) are operators that compute what Python computes.  A    *)
(* value decoded from JSON is a record [ty, s, n, items]; ty is one of     *)
(* "null", "bool", "num", "str", "list", "obj".                           *)
(***************************************************************************)
EXTENDS Integers, Sequences, FiniteSets, TLC

(***************************************************************************)
(* Python string operations                                                *)
(***************************************************************************)

\* s[i] as a one-character string, "" outside the string
Ch(s, i) == IF i >= 1 /\ i <= Len(s) THEN SubSeq(s, i, i) ELSE ""

\* s[i-1:j] with Python's clamping of the slice to the string
Slice(s, i, j) ==
    LET a == IF i < 1 THEN 1 ELSE i
        b == IF j > Len(s) THEN Len(s) ELSE j
    IN  IF a > b THEN "" ELSE SubSeq(s, a, b)

\* s.startswith(p)
StartsWith(s, p) == Len(p) <= Len(s) /\ Slice(s, 1, Len(p)) = p

\* s[-n:]
LastChars(s, n) == IF Len(s) <= n THEN s ELSE SubSeq(s, Len(s) - n + 1, Len(s))

\* t in s
Contains(s, t) ==
    \E i \in 1..(Len(s) - Len(t) + 1) : SubSeq(s, i, i + Len(t) - 1) = t

\* min(S) and max(S) of a non-empty set of integers
MinOf(S) == CHOOSE x \in S : \A y \in S : x <= y
MaxOf(S) == CHOOSE x \in S : \A y \in S : y <= x

\* s.find(t, from i), 1-based; 0 when t does not occur
Find(s, t, i) ==
    LET First(hits) == IF hits = {} THEN 0 ELSE MinOf(hits)
    IN  First({j \in i..(Len(s) - Len(t) + 1) : SubSeq(s, j, j + Len(t) - 1) = t})

Whitespace == {" ", "\n", "\t", "\r"}

RECURSIVE LStrip(_)
LStrip(s) == IF s # "" /\ Ch(s, 1) \in Whitespace THEN LStrip(Slice(s, 2, Len(s))) ELSE s

RECURSIVE RStrip(_)
RStrip(s) ==
    IF s # "" /\ Ch(s, Len(s)) \in Whitespace THEN RStrip(Slice(s, 1, Len(s) - 1)) ELSE s

\* s.strip()
Strip(s) == RStrip(LStrip(s))

UpperToLower ==
    [c \in {"A","B","C","D","E","F","G","H","I","J","K","L","M",
            "N","O","P","Q","R","S","T","U","V","W","X","Y","Z"} |->
        CASE c = "A" -> "a" [] c = "B" -> "b" [] c = "C" -> "c" [] c = "D" -> "d"
          [] c = "E" -> "e" [] c = "F" -> "f" [] c = "G" -> "g" [] c = "H" -> "h"
          [] c = "I" -> "i" [] c = "J" -> "j" [] c = "K" -> "k" [] c = "L" -> "l"
          [] c = "M" -> "m" [] c = "N" -> "n" [] c = "O" -> "o" [] c = "P" -> "p"
          [] c = "Q" -> "q" [] c = "R" -> "r" [] c = "S" -> "s" [] c = "T" -> "t"
          [] c = "U" -> "u" [] c = "V" -> "v" [] c = "W" -> "w" [] c = "X" -> "x"
          [] c = "Y" -> "y" [] c = "Z" -> "z"]

\* s.lower(), by halves so that a long message needs no deep recursion
RECURSIVE Lower(_)
Lower(s) ==
    IF Len(s) = 0 THEN ""
    ELSE IF Len(s) = 1 THEN (IF s \in DOMAIN UpperToLower THEN UpperToLower[s] ELSE s)
    ELSE LET h == Len(s) \div 2
         IN  Lower(SubSeq(s, 1, h)) \o Lower(SubSeq(s, h + 1, Len(s)))

\* s.replace(old, new): every non-overlapping occurrence, left to right
RECURSIVE Replace(_, _, _)
Replace(s, old, new) ==
    LET From(j) ==
            IF j = 0 THEN s
            ELSE Slice(s, 1, j - 1) \o new
                 \o Replace(Slice(s, j + Len(old), Len(s)), old, new)
    IN  From(Find(s, old, 1))

\* sep.join(parts)
RECURSIVE Join(_, _)
Join(sep, parts) ==
    IF parts = <<>> THEN ""
    ELSE IF Len(parts) = 1 THEN parts[1]
    ELSE parts[1] \o sep \o Join(sep, Tail(parts))

\* s * n
RECURSIVE Repeat(_, _)
Repeat(s, n) ==
    IF n = 0 THEN ""
    ELSE IF n % 2 = 1 THEN s \o Repeat(s, n - 1)
    ELSE Repeat(s \o s, n \div 2)

(***************************************************************************)
(* JSON values, json.dumps, json.loads, str()                              *)
(***************************************************************************)

JNull == [ty |-> "null", s |-> "", n |-> 0, items |-> <<>>]
JBool(b) == [ty |-> "bool", s |-> "", n |-> IF b THEN 1 ELSE 0, items |-> <<>>]
JNum(n) == [ty |-> "num", s |-> "", n |-> n, items |-> <<>>]
JStr(s) == [ty |-> "str", s |-> s, n |-> 0, items |-> <<>>]
JList(items) == [ty |-> "list", s |-> "", n |-> 0, items |-> items]
\* a dict: items is the sequence of its [k, v] entries in insertion order
JObj(items) == [ty |-> "obj", s |-> "", n |-> 0, items |-> items]
KV(k, v) == [k |-> k, v |-> v]

\* key in d
HasKey(d, k) == \E i \in 1..Len(d.items) : d.items[i].k = k

\* d.get(k): None when the key is absent
Get(d, k) ==
    IF HasKey(d, k)
    THEN d.items[CHOOSE i \in 1..Len(d.items) : d.items[i].k = k].v
    ELSE JNull

\* d[k] = v
DictSet(items, k, v) ==
    IF \E i \in 1..Len(items) : items[i].k = k
    THEN [i \in 1..Len(items) |-> IF items[i].k = k THEN KV(k, v) ELSE items[i]]
    ELSE Append(items, KV(k, v))

\* bool(v)
Truthy(v) ==
    CASE v.ty = "null" -> FALSE
      [] v.ty = "bool" -> v.n = 1
      [] v.ty = "num"  -> v.n # 0
      [] v.ty = "str"  -> v.s # ""
      [] OTHER         -> v.items # <<>>

\* the escapes of json.dumps for the ASCII characters
RECURSIVE JsonEscape(_)
JsonEscape(s) ==
    IF Len(s) = 0 THEN ""
    ELSE IF Len(s) = 1
    THEN CASE s = "\"" -> "\\\""
           [] s = "\\" -> "\\\\"
           [] s = "\n" -> "\\n"
           [] s = "\t" -> "\\t"
           [] s = "\r" -> "\\r"
           [] OTHER    -> s
    ELSE LET h == Len(s) \div 2
         IN  JsonEscape(SubSeq(s, 1, h)) \o JsonEscape(SubSeq(s, h + 1, Len(s)))

\* json.dumps(v), with the default separators ", " and ": "
RECURSIVE Dumps(_)
Dumps(v) ==
    CASE v.ty = "null" -> "null"
      [] v.ty = "bool" -> IF v.n = 1 THEN "true" ELSE "false"
      [] v.ty = "num"  -> ToString(v.n)
      [] v.ty = "str"  -> "\"" \o JsonEscape(v.s) \o "\""
      [] v.ty = "list" ->
            "[" \o Join(", ", [i \in 1..Len(v.items) |-> Dumps(v.items[i])]) \o "]"
      [] OTHER ->
            "{" \o Join(", ", [i \in 1..Len(v.items) |->
                     "\"" \o JsonEscape(v.items[i].k) \o "\": " \o Dumps(v.items[i].v)])
            \o "}"

\* repr(v) and str(v) of a decoded value
RECURSIVE PyRepr(_)
PyRepr(v) ==
    CASE v.ty = "null" -> "None"
      [] v.ty = "bool" -> IF v.n = 1 THEN "True" ELSE "False"
      [] v.ty = "num"  -> ToString(v.n)
      [] v.ty = "str"  -> "'" \o v.s \o "'"
      [] v.ty = "list" ->
            "[" \o Join(", ", [i \in 1..Len(v.items) |-> PyRepr(v.items[i])]) \o "]"
      [] OTHER ->
            "{" \o Join(", ", [i \in 1..Len(v.items) |->
                     "'" \o v.items[i].k \o "': " \o PyRepr(v.items[i].v)])
            \o "}"

PyStr(v) == IF v.ty = "str" THEN v.s ELSE PyRepr(v)

Digits == {"0", "1", "2", "3", "4", "5", "6", "7", "8", "9"}

DigitValue(c) ==
    CASE c = "0" -> 0 [] c = "1" -> 1 [] c = "2" -> 2 [] c = "3" -> 3 [] c = "4" -> 4
      [] c = "5" -> 5 [] c = "6" -> 6 [] c = "7" -> 7 [] c = "8" -> 8 [] OTHER -> 9

\* the decoder's position after the whitespace at i
RECURSIVE SkipWs(_, _)
SkipWs(s, i) == IF Ch(s, i) \in Whitespace THEN SkipWs(s, i + 1) ELSE i

ParseFail == [ok |-> FALSE, v |-> JNull, i |-> 0]
ParseOk(v, i) == [ok |-> TRUE, v |-> v, i |-> i]

\* the digits from i on: [n, i] with i the position after the last digit
RECURSIVE ScanDigits(_, _, _)
ScanDigits(s, i, acc) ==
    IF Ch(s, i) \in Digits THEN ScanDigits(s, i + 1, acc * 10 + DigitValue(Ch(s, i)))
    ELSE [n |-> acc, i |-> i]

\* an integer literal at i (a fraction or an exponent is outside this decoder)
ParseNumber(s, i) ==
    LET Signed(neg, j) ==
            LET Number(d) ==
                    IF Ch(s, j) = "0" /\ d.i > j + 1 THEN ParseFail
                    ELSE IF Ch(s, d.i) \in {".", "e", "E"} THEN ParseFail
                    ELSE ParseOk(JNum(IF neg THEN 0 - d.n ELSE d.n), d.i)
            IN  IF Ch(s, j) \notin Digits THEN ParseFail ELSE Number(ScanDigits(s, j, 0))
    IN  IF Ch(s, i) = "-" THEN Signed(TRUE, i + 1) ELSE Signed(FALSE, i)

\* the concatenation of f[a], ..., f[b], by halves
RECURSIVE ConcatRange(_, _, _)
ConcatRange(f, a, b) ==
    IF a > b THEN ""
    ELSE IF a = b THEN f[a]
    ELSE ConcatRange(f, a, (a + b) \div 2) \o ConcatRange(f, ((a + b) \div 2) + 1, b)

\* the number of backslashes that end right before position j, counted from i on
BackslashRun(s, i, j) ==
    IF j <= i \/ Ch(s, j - 1) # "\\" THEN 0
    ELSE j - 1 - MaxOf({p \in (i - 1)..(j - 1) : p = i - 1 \/ Ch(s, p) # "\\"})

\* the character that ends at position j of a string literal, decoded; "" for the
\* backslash that opens an escape
DecodeAt(s, i, j) ==
    LET Decode(escaped) ==
            IF escaped
            THEN CASE Ch(s, j) = "n" -> "\n"
                   [] Ch(s, j) = "t" -> "\t"
                   [] Ch(s, j) = "r" -> "\r"
                   [] OTHER -> Ch(s, j)
            ELSE IF Ch(s, j) = "\\" THEN ""
            ELSE Ch(s, j)
    IN  Decode(BackslashRun(s, i, j) % 2 = 1)

\* position j of a string literal is a raw control character or a wrong escape
BadAt(s, i, j) ==
    \/ Ch(s, j) \in {"\n", "\t", "\r"}
    \/ /\ Ch(s, j) \notin {"\"", "\\", "/", "n", "t", "r"}
       /\ BackslashRun(s, i, j) % 2 = 1

\* the string literal whose characters start at i (after the opening quote):
\* [ok, s, i] with s the decoded string and i the position after the closing quote
ScanString(s, i) ==
    LET Bad == [ok |-> FALSE, s |-> "", i |-> 0]
        Upto(close) ==
            IF \E j \in i..(close - 1) : BadAt(s, i, j) THEN Bad
            ELSE [ok |-> TRUE,
                  s |-> ConcatRange([j \in i..(close - 1) |-> DecodeAt(s, i, j)], i, close - 1),
                  i |-> close + 1]
        Closing(quotes) == IF quotes = {} THEN Bad ELSE Upto(MinOf(quotes))
    IN  Closing({j \in i..Len(s) : Ch(s, j) = "\"" /\ BackslashRun(s, i, j) % 2 = 0})

RECURSIVE ParseValue(_, _)
RECURSIVE ParseElements(_, _, _)
RECURSIVE ParseMembers(_, _, _)

\* the elements of an array after "[" or ",": i is at the next element
ParseElements(s, i, acc) ==
    LET After(v, j) ==
            IF Ch(s, j) = "," THEN ParseElements(s, j + 1, Append(acc, v))
            ELSE IF Ch(s, j) = "]" THEN ParseOk(JList(Append(acc, v)), j + 1)
            ELSE ParseFail
        Element(r) == IF ~r.ok THEN ParseFail ELSE After(r.v, SkipWs(s, r.i))
    IN  Element(ParseValue(s, SkipWs(s, i)))

\* the members of an object after "{" or ",": i is at the next key
ParseMembers(s, i, acc) ==
    LET After(items, j) ==
            IF Ch(s, j) = "," THEN ParseMembers(s, j + 1, items)
            ELSE IF Ch(s, j) = "}" THEN ParseOk(JObj(items), j + 1)
            ELSE ParseFail
        Member(key, r) ==
            IF ~r.ok THEN ParseFail ELSE After(DictSet(acc, key, r.v), SkipWs(s, r.i))
        Colon(key, c) ==
            IF Ch(s, c) # ":" THEN ParseFail
            ELSE Member(key, ParseValue(s, SkipWs(s, c + 1)))
        Key(k) == IF ~k.ok THEN ParseFail ELSE Colon(k.s, SkipWs(s, k.i))
        Start(a) == IF Ch(s, a) # "\"" THEN ParseFail ELSE Key(ScanString(s, a + 1))
    IN  Start(SkipWs(s, i))

\* the value at i
ParseValue(s, i) ==
    LET Str(k) == IF k.ok THEN ParseOk(JStr(k.s), k.i) ELSE ParseFail
        Obj(j) == IF Ch(s, j) = "}" THEN ParseOk(JObj(<<>>), j + 1)
                  ELSE ParseMembers(s, i + 1, <<>>)
        Arr(j) == IF Ch(s, j) = "]" THEN ParseOk(JList(<<>>), j + 1)
                  ELSE ParseElements(s, i + 1, <<>>)
        Value(c) ==
            CASE c = "{" -> Obj(SkipWs(s, i + 1))
              [] c = "[" -> Arr(SkipWs(s, i + 1))
              [] c = "\"" -> Str(ScanString(s, i + 1))
              [] c = "-" \/ c \in Digits -> ParseNumber(s, i)
              [] OTHER ->
                    IF Slice(s, i, i + 3) = "null" THEN ParseOk(JNull, i + 4)
                    ELSE IF Slice(s, i, i + 3) = "true" THEN ParseOk(JBool(TRUE), i + 4)
                    ELSE IF Slice(s, i, i + 4) = "false" THEN ParseOk(JBool(FALSE), i + 5)
                    ELSE ParseFail
    IN  Value(Ch(s, i))

\* json.loads(s): ok is FALSE where Python raises JSONDecodeError
Loads(s) ==
    LET Whole(r) ==
            IF r.ok /\ SkipWs(s, r.i) = Len(s) + 1 THEN [ok |-> TRUE, v |-> r.v]
            ELSE [ok |-> FALSE, v |-> JNull]
    IN  Whole(ParseValue(s, SkipWs(s, 1)))

(***************************************************************************)
(* Bounds of the model                                                     *)
(***************************************************************************)

\* turns of one session
MaxTurns == 3
\* turns of one session fed the wide input sets
MaxWideTurns == 1
\* clock advances of one session
MaxTicks == 1
\* repetitions of the filler sentence in the long user message
LongRepeats == 520
\* fragments concatenated into one planner input
MaxFragments == 2
\* direct calls of the tools in one run
MaxToolCalls == 4
\* clock advances between direct calls of the tools
MaxElapses == 2
\* notes already in memory.json when a run starts
MaxStored == 21
\* segments of a path given to read_file
MaxSegments == 3

(***************************************************************************)
(* src/tools.py: clock, persisted documents, the six tools                 *)
(***************************************************************************)

\* datetime.now() at construction, in milliseconds since 2026-01-01T00:00:00
MsPerSecond == 1000
MsPerMinute == 60 * MsPerSecond
MsPerHour == 60 * MsPerMinute
MsPerDay == 24 * MsPerHour

ClockStart == MsPerDay + 10 * MsPerHour

Pad2(n) == IF n < 10 THEN "0" \o ToString(n) ELSE ToString(n)

DateOf(t) == "2026-01-" \o Pad2((t \div MsPerDay) + 1)

ClockOf(t) ==
    Pad2((t % MsPerDay) \div MsPerHour) \o ":"
    \o Pad2((t % MsPerHour) \div MsPerMinute) \o ":"
    \o Pad2((t % MsPerMinute) \div MsPerSecond)

\* t.isoformat(timespec="seconds"): the fraction of a second is cut off
isoformat(t) == DateOf(t) \o "T" \o ClockOf(t)

\* t.strftime('%Y-%m-%d %H:%M:%S')
strftime(t) == DateOf(t) \o " " \o ClockOf(t)

TwoDigits(s) ==
    IF Len(s) = 2 /\ Ch(s, 1) \in Digits /\ Ch(s, 2) \in Digits
    THEN DigitValue(Ch(s, 1)) * 10 + DigitValue(Ch(s, 2))
    ELSE -1

\* datetime.fromisoformat(s): ok is FALSE where Python raises
fromisoformat(s) ==
    LET Fields(day, hh, mm, ss) ==
            IF /\ Len(s) = 19
               /\ Slice(s, 1, 8) = "2026-01-"
               /\ Ch(s, 11) = "T" /\ Ch(s, 14) = ":" /\ Ch(s, 17) = ":"
               /\ day >= 1 /\ day <= 31
               /\ hh >= 0 /\ hh <= 23 /\ mm >= 0 /\ mm <= 59 /\ ss >= 0 /\ ss <= 59
            THEN [ok |-> TRUE,
                  t |-> (day - 1) * MsPerDay + hh * MsPerHour + mm * MsPerMinute
                        + ss * MsPerSecond]
            ELSE [ok |-> FALSE, t |-> 0]
    IN  Fields(TwoDigits(Slice(s, 9, 10)), TwoDigits(Slice(s, 12, 13)),
               TwoDigits(Slice(s, 15, 16)), TwoDigits(Slice(s, 18, 19)))

\* what a tool call leaves behind: the exception it raised ("" when it returned),
\* the returned text or the exception's message, and the two persisted documents
ToolReturned(text, mem, rem) ==
    [raised |-> "", text |-> text, memory |-> mem, reminders |-> rem]
ToolRaised(kind, text, mem, rem) ==
    [raised |-> kind, text |-> text, memory |-> mem, reminders |-> rem]

\* the outcomes of the request to the search page
SearchOutcomes == {"no_requests", "request_failed", "bad_status", "no_results", "results"}

web_search(query, outcome, mem, rem) ==
    CASE outcome = "no_requests" ->
            ToolReturned("Web search is not available because the 'requests' package is missing. "
                     \o "Install it with: pip install requests", mem, rem)
      [] outcome = "request_failed" ->
            ToolReturned("Web search failed: connection timed out", mem, rem)
      [] outcome = "bad_status" ->
            ToolReturned("Web search failed with status code 503", mem, rem)
      [] outcome = "no_results" ->
            ToolReturned("No results found for: " \o PyStr(query), mem, rem)
      [] OTHER ->
            ToolReturned("Top search results:\n\n"
                     \o Join("\n\n", <<"1. Example Domain\n   https://example.com/",
                                       "2. Example & Sons\n   https://example.org/">>),
                     mem, rem)

BASE_DIR == "/srv/agent"

\* the files of the machine: path -> [size in bytes, content]
Files ==
    [p \in {"/srv/agent/notes.txt", "/srv/agent/big.log", "/srv/agent/long.txt",
            "/srv/agent-private/key.txt", "/etc/hostname"} |->
        CASE p = "/srv/agent/notes.txt" -> [size |-> 11, content |-> "hello world"]
          [] p = "/srv/agent/big.log" -> [size |-> 204801, content |-> "log"]
          [] p = "/srv/agent/long.txt" -> [size |-> 4008, content |-> Repeat("abcdefgh", 501)]
          [] p = "/srv/agent-private/key.txt" -> [size |-> 6, content |-> "s3cr3t"]
          [] OTHER -> [size |-> 5, content |-> "host1"]]

\* the directories of the machine
Directories == {"/", "/srv", "/srv/agent", "/srv/agent-private", "/etc"}

\* the components of a path between its slashes
RECURSIVE SplitPath(_)
SplitPath(p) ==
    LET j == Find(p, "/", 1)
    IN  IF j = 0 THEN <<p>>
        ELSE <<Slice(p, 1, j - 1)>> \o SplitPath(Slice(p, j + 1, Len(p)))

\* os.path.normpath on the components of an absolute path
RECURSIVE NormParts(_, _)
NormParts(parts, acc) ==
    IF parts = <<>> THEN acc
    ELSE LET c == Head(parts)
         IN  IF c = "" \/ c = "." THEN NormParts(Tail(parts), acc)
             ELSE IF c = ".."
             THEN NormParts(Tail(parts),
                            IF acc = <<>> THEN acc ELSE SubSeq(acc, 1, Len(acc) - 1))
             ELSE NormParts(Tail(parts), Append(acc, c))

\* os.path.abspath(os.path.join(BASE_DIR, path))
abspath_join(base, path) ==
    LET joined == IF StartsWith(path, "/") THEN path
                  ELSE IF base # "" /\ Ch(base, Len(base)) = "/" THEN base \o path
                  ELSE base \o "/" \o path
        parts == NormParts(SplitPath(joined), <<>>)
    IN  "/" \o Join("/", parts)

read_file(path, mem, rem) ==
    IF path.ty # "str"
    THEN ToolRaised("TypeError",
                "join() argument must be str, bytes, or os.PathLike object, not '"
                \o (CASE path.ty = "null" -> "NoneType" [] path.ty = "num" -> "int"
                      [] path.ty = "bool" -> "bool" [] path.ty = "list" -> "list"
                      [] OTHER -> "dict") \o "'", mem, rem)
    ELSE
    LET full_path == abspath_join(BASE_DIR, path.s)
    IN  IF ~StartsWith(full_path, BASE_DIR)
        THEN ToolReturned("Access denied: you can only read files inside the project folder.",
                      mem, rem)
        ELSE IF full_path \notin DOMAIN Files \cup Directories
        THEN ToolReturned("File not found: " \o path.s, mem, rem)
        ELSE IF full_path \in Directories
        THEN ToolReturned("Error reading file: [Errno 21] Is a directory: '" \o full_path
                          \o "'", mem, rem)
        ELSE IF Files[full_path].size > 200 * 1024
        THEN ToolReturned("File is too large to read (limit: 200KB).", mem, rem)
        ELSE LET content == Files[full_path].content
                 shown == IF Len(content) > 4000
                          THEN Slice(content, 1, 4000) \o "\n\n[Content truncated...]"
                          ELSE content
             IN  ToolReturned("Content of " \o path.s \o ":\n\n" \o shown, mem, rem)

remember_info(note, t, mem, rem) ==
    LET timestamp == isoformat(t)
        data == JList(Append(mem.items,
                    JObj(<<KV("timestamp", JStr(timestamp)), KV("note", note)>>)))
    IN  ToolReturned("I've saved this to memory at " \o timestamp \o ".", data, rem)

\* a recall that lists every stored note
RecallAll(mem, rem) ==
    IF mem.items = <<>>
    THEN ToolReturned("I don't have any saved memory yet.", mem, rem)
    ELSE LET lines == [i \in 1..Len(mem.items) |->
                          "- [" \o PyStr(Get(mem.items[i], "timestamp")) \o "] "
                          \o PyStr(Get(mem.items[i], "note"))]
         IN  ToolReturned("Here are the memories I have:\n\n" \o Join("\n", lines), mem, rem)

recall_memory(mem, rem) ==
    IF mem.items = <<>>
    THEN ToolReturned("I don't have any saved memory yet.", mem, rem)
    ELSE LET n == Len(mem.items)
             last == SubSeq(mem.items, IF n > 20 THEN n - 19 ELSE 1, n)
             lines == [i \in 1..Len(last) |->
                          "- [" \o PyStr(Get(last[i], "timestamp")) \o "] "
                          \o PyStr(Get(last[i], "note"))]
         IN  ToolReturned("Here are the memories I have:\n\n" \o Join("\n", lines), mem, rem)

\* the text Python names a value's type by
TypeName(v) ==
    CASE v.ty = "null" -> "NoneType" [] v.ty = "bool" -> "bool" [] v.ty = "num" -> "int"
      [] v.ty = "str" -> "str" [] v.ty = "list" -> "list" [] OTHER -> "dict"

\* int(v): [raised, n, text]
int(v) ==
    LET Literal(neg, body, d) ==
            IF body # "" /\ d.i = Len(body) + 1
            THEN [raised |-> "", n |-> IF neg THEN 0 - d.n ELSE d.n, text |-> ""]
            ELSE [raised |-> "ValueError", n |-> 0,
                  text |-> "invalid literal for int() with base 10: " \o PyRepr(v)]
        Body(neg, body) == Literal(neg, body, ScanDigits(body, 1, 0))
        Text(s) ==
            Body(Ch(s, 1) = "-", IF Ch(s, 1) \in {"-", "+"} THEN Slice(s, 2, Len(s)) ELSE s)
    IN  CASE v.ty = "num" -> [raised |-> "", n |-> v.n, text |-> ""]
          [] v.ty = "bool" -> [raised |-> "", n |-> v.n, text |-> ""]
          [] v.ty = "str" -> Text(Strip(v.s))
          [] OTHER ->
                [raised |-> "TypeError", n |-> 0,
                 text |-> "int() argument must be a string, a bytes-like object or a real "
                          \o "number, not '" \o TypeName(v) \o "'"]

set_reminder(message, minutes_from_now, t, mem, rem) ==
    LET Saved(due_time) ==
            ToolReturned("Reminder set: '" \o PyStr(message) \o "' in about "
                         \o PyStr(minutes_from_now) \o " minute(s), around "
                         \o strftime(due_time) \o ".",
                         mem,
                         JList(Append(rem.items,
                                      JObj(<<KV("message", message),
                                             KV("created_at", JStr(isoformat(t))),
                                             KV("due_at", JStr(isoformat(due_time))),
                                             KV("delivered", JBool(FALSE))>>))))
        Minutes(m) ==
            IF m.raised # "" THEN ToolRaised(m.raised, m.text, mem, rem)
            ELSE Saved(t + m.n * MsPerMinute)
    IN  Minutes(int(minutes_from_now))

\* a due test that does not look at the delivered flag
IsDueAgain(r, t) ==
    LET At(due) == due.ok /\ due.t <= t
        Due(due_at) == due_at.ty = "str" /\ At(fromisoformat(due_at.s))
    IN  HasKey(r, "due_at") /\ Due(Get(r, "due_at"))

\* a due test that takes only records due before t
IsDueStrict(r, t) ==
    LET At(due) == due.ok /\ due.t < t
        Due(due_at) == due_at.ty = "str" /\ At(fromisoformat(due_at.s))
    IN  /\ ~Truthy(IF HasKey(r, "delivered") THEN Get(r, "delivered") ELSE JBool(FALSE))
        /\ HasKey(r, "due_at")
        /\ Due(Get(r, "due_at"))

\* whether check_reminders takes the record r as due at time t
IsDue(r, t) ==
    LET At(due) == due.ok /\ due.t <= t
        Due(due_at) == due_at.ty = "str" /\ At(fromisoformat(due_at.s))
    IN  /\ ~Truthy(IF HasKey(r, "delivered") THEN Get(r, "delivered") ELSE JBool(FALSE))
        /\ HasKey(r, "due_at")
        /\ Due(Get(r, "due_at"))

check_reminders(t, mem, rem) ==
    LET Lines(due) ==
            IF due = <<>> THEN "You don't have any reminders due right now."
            ELSE Join("\n", <<"Here are your due reminders:">>
                            \o [i \in 1..Len(due) |->
                                   "- " \o PyStr(Get(due[i], "message")) \o " (due at "
                                   \o PyStr(Get(due[i], "due_at")) \o ")"])
        Marked(flags) ==
            ToolReturned(Lines(SelectSeq(rem.items, LAMBDA r : IsDue(r, t))), mem,
                         JList([i \in 1..Len(rem.items) |->
                                   IF flags[i]
                                   THEN JObj(DictSet(rem.items[i].items, "delivered",
                                                     JBool(TRUE)))
                                   ELSE rem.items[i]]))
    IN  Marked([i \in 1..Len(rem.items) |-> IsDue(rem.items[i], t)])

\* the registry: tool name -> the named parameters of the callable
TOOLS ==
    [name \in {"web_search", "read_file", "remember_info", "recall_memory",
               "set_reminder", "check_reminders"} |->
        CASE name = "web_search" -> <<"query">>
          [] name = "read_file" -> <<"path">>
          [] name = "remember_info" -> <<"note">>
          [] name = "set_reminder" -> <<"message", "minutes_from_now">>
          [] OTHER -> <<>>]

(***************************************************************************)
(* src/agent.py: configuration, transcript, backend adapter, dispatcher    *)
(***************************************************************************)

SYSTEM_PROMPT ==
    "\n"
    \o "You are Jarvis, an AI concierge agent helping a developer named Madhu.\n"
    \o "\n"
    \o "You are powered by an LLM backend (Gemini or Hugging Face) and you must ALWAYS produce\n"
    \o "your primary reasoning output in pure JSON following this schema:\n"
    \o "\n"
    \o "1) To answer the user directly (no tools):\n"
    \o "{\n"
    \o "  \"action\": \"respond\",\n"
    \o "  \"content\": \"<your natural language reply to the user>\"\n"
    \o "}\n"
    \o "\n"
    \o "2) To call a tool:\n"
    \o "{\n"
    \o "  \"action\": \"tool\",\n"
    \o "  \"name\": \"<tool_name>\",\n"
    \o "  \"args\": { ... }\n"
    \o "}\n"
    \o "\n"
    \o "Available tools and their arguments:\n"
    \o "\n"
    \o "1) web_search\n"
    \o "   - description: Search the web for recent or dynamic information.\n"
    \o "   - args: { \"query\": \"search text\" }\n"
    \o "\n"
    \o "2) read_file\n"
    \o "   - description: Read a small text file from the local project folder.\n"
    \o "   - args: { \"path\": \"relative/path/to/file.txt\" }\n"
    \o "\n"
    \o "3) remember_info\n"
    \o "   - description: Save an important note to long-term memory.\n"
    \o "   - args: { \"note\": \"text to remember\" }\n"
    \o "\n"
    \o "4) recall_memory\n"
    \o "   - description: Show previously saved notes from long-term memory.\n"
    \o "   - args: { }\n"
    \o "\n"
    \o "5) set_reminder\n"
    \o "   - description: Create a reminder N minutes from now.\n"
    \o "   - args: { \"message\": \"reminder text\", \"minutes_from_now\": 10 }\n"
    \o "\n"
    \o "6) check_reminders\n"
    \o "   - description: Check which reminders are due now.\n"
    \o "   - args: { }\n"
    \o "\n"
    \o "Rules:\n"
    \o "- If the user asks for current or changing information, strongly consider using web_search.\n"
    \o "- Use remember_info when the user explicitly says to remember something.\n"
    \o "- Use recall_memory when the user wants to recall past notes.\n"
    \o "- Use set_reminder/check_reminders for reminder workflows.\n"
    \o "- If a tool is not needed, use \"action\": \"respond\".\n"
    \o "\n"
    \o "Context Engineering:\n"
    \o "- The system may compact older parts of the conversation to keep only the most relevant\n"
    \o "  recent turns. When this happens, you still respond normally, assuming a short summary\n"
    \o "  of prior context is sufficient.\n"
    \o "\n"
    \o "Return ONLY valid JSON when asked to follow the JSON schema above.\n"

\* SYSTEM_PROMPT.strip()
SystemInstruction == Strip(SYSTEM_PROMPT)

\* self.dialogue after __init__
InitialDialogue == SystemInstruction \o "\n\nConversation so far:\n"

\* the default of max_dialogue_chars
max_dialogue_chars == 8000

\* the characters _compact_context keeps: self.dialogue[-4000:]
TailChars == 4000

CompactionNotice ==
    "\n\n[Older conversation compacted for brevity. "
    \o "Only the most recent turns are kept here.]\n\n"

\* a compaction that puts nothing in front of the notice
CompactTailOnly(d) ==
    IF Len(d) <= max_dialogue_chars THEN d
    ELSE CompactionNotice \o LastChars(d, TailChars)

\* a compaction that keeps a whole budget of characters
CompactKeepBudget(d) ==
    IF Len(d) <= max_dialogue_chars THEN d
    ELSE SystemInstruction \o CompactionNotice \o LastChars(d, max_dialogue_chars)

\* self.dialogue after _compact_context()
_compact_context(d) ==
    IF Len(d) <= max_dialogue_chars THEN d
    ELSE SystemInstruction \o CompactionNotice \o LastChars(d, TailChars)

Backends == {"mock", "hf", "gemini", "openai"}

\* a tool object that leaves the arguments out
ToolActionBare(name, args) ==
    JObj(<<KV("action", JStr("tool")), KV("name", JStr(name)), KV("args", JObj(<<>>))>>)

RespondAction(content) == JObj(<<KV("action", JStr("respond")), KV("content", JStr(content))>>)
ToolAction(name, args) ==
    JObj(<<KV("action", JStr("tool")), KV("name", JStr(name)), KV("args", JObj(args))>>)

HfApology == "I couldn't reach the Hugging Face model due to an error."
GeminiApology == "I couldn't reach the Gemini API because of a quota or network error."

\* what the remote service does with one request: it answers (text is the
\* response text, "" for none; parts are the candidates' part texts that Gemini
\* falls back on, broken when reading them raises) or the call raises (text is str(e))
Answer(text) == [kind |-> "ok", text |-> text, parts |-> <<>>, broken |-> FALSE]
AnswerParts(parts) == [kind |-> "ok", text |-> "", parts |-> parts, broken |-> FALSE]
AnswerBroken == [kind |-> "ok", text |-> "", parts |-> <<>>, broken |-> TRUE]
CallError(e) == [kind |-> "error", text |-> e, parts |-> <<>>, broken |-> FALSE]

\* the text _call_model returns (its compaction of the transcript is in the callers)
_call_model(backend, out) ==
    CASE backend = "hf" ->
            IF out.kind = "error"
            THEN Dumps(RespondAction(HfApology \o "\n\nTechnical details: " \o out.text))
            ELSE Strip(out.text)
      [] backend = "gemini" ->
            IF out.kind = "error"
            THEN Dumps(RespondAction(GeminiApology \o "\n\nTechnical details: " \o out.text))
            ELSE LET text == IF out.text # "" THEN out.text
                             ELSE IF out.broken THEN ""
                             ELSE Join("\n", SelectSeq(out.parts, LAMBDA p : p # ""))
                 IN  Strip(text)
      [] OTHER ->
            Dumps(RespondAction("LLM backend is misconfigured. Please set LLM_BACKEND "
                                \o "to 'mock', 'hf' or 'gemini' in .env."))

\* whether the call of _call_model failed at the backend
BackendFailed(backend, out) == backend \in {"hf", "gemini"} /\ out.kind = "error"

\* hash(v) is defined
Hashable(v) == v.ty \notin {"list", "obj"}

\* name in TOOLS
Registered(name) == name.ty = "str" /\ name.s \in DOMAIN TOOLS

\* the named parameters of params that the keywords kw leave unbound
Missing(params, kw) == SelectSeq(params, LAMBDA p : ~HasKey(kw, p))

QuotedList(names) ==
    IF Len(names) = 1 THEN "'" \o names[1] \o "'"
    ELSE Join(", ", [i \in 1..(Len(names) - 1) |-> "'" \o names[i] \o "'"])
         \o " and '" \o names[Len(names)] \o "'"

\* a call that binds whatever the arguments are
BindAnyway(name, args) == ""

\* the TypeError of func(**args) if args else func(), "" when the call binds
BindError(name, args) ==
    LET Unbound(missing) ==
            IF missing = <<>> THEN ""
            ELSE name \o "() missing " \o ToString(Len(missing))
                 \o " required positional argument"
                 \o (IF Len(missing) = 1 THEN "" ELSE "s") \o ": " \o QuotedList(missing)
        Bind(params, kw, extra) ==
            IF extra # <<>>
            THEN name \o "() got an unexpected keyword argument '" \o extra[1].k \o "'"
            ELSE Unbound(Missing(params, kw))
        Keywords(params, kw) ==
            Bind(params, kw,
                 SelectSeq(kw.items, LAMBDA e : \A i \in 1..Len(params) : params[i] # e.k))
    IN  IF Truthy(args) /\ args.ty # "obj"
        THEN name \o "() argument after ** must be a mapping, not " \o TypeName(args)
        ELSE Keywords(TOOLS[name], IF Truthy(args) THEN args ELSE JObj(<<>>))

\* the body of the tool called with the keywords kw
Invoke(name, kw, t, mem, rem, outcome) ==
    CASE name = "web_search" -> web_search(Get(kw, "query"), outcome, mem, rem)
      [] name = "read_file" -> read_file(Get(kw, "path"), mem, rem)
      [] name = "remember_info" -> remember_info(Get(kw, "note"), t, mem, rem)
      [] name = "recall_memory" -> recall_memory(mem, rem)
      [] name = "set_reminder" ->
            set_reminder(Get(kw, "message"), Get(kw, "minutes_from_now"), t, mem, rem)
      [] OTHER -> check_reminders(t, mem, rem)

\* _run_tool(name, args): raised is the exception that leaves _run_tool ("" when it
\* returns), text the returned string or the exception's message, ran whether a
\* tool body was entered
_run_tool(name, args, t, mem, rem, outcome) ==
    LET Caught(r) ==
            [raised |-> "",
             text |-> IF r.raised = "TypeError"
                      THEN "Error calling tool '" \o name.s \o "': " \o r.text
                      ELSE IF r.raised # ""
                      THEN "Tool '" \o name.s \o "' raised an error: " \o r.text
                      ELSE r.text,
             memory |-> r.memory, reminders |-> r.reminders, ran |-> TRUE]
        Call(unbound) ==
            IF unbound # ""
            THEN [raised |-> "",
                  text |-> "Error calling tool '" \o name.s \o "': " \o unbound,
                  memory |-> mem, reminders |-> rem, ran |-> FALSE]
            ELSE Caught(Invoke(name.s, IF Truthy(args) THEN args ELSE JObj(<<>>),
                               t, mem, rem, outcome))
    IN  IF ~Hashable(name)
        THEN [raised |-> "TypeError",
              text |-> "unhashable type: '" \o TypeName(name) \o "'",
              memory |-> mem, reminders |-> rem, ran |-> FALSE]
        ELSE IF ~Registered(name)
        THEN [raised |-> "",
              text |-> "Error: tool '" \o PyStr(name) \o "' is not implemented.",
              memory |-> mem, reminders |-> rem, ran |-> FALSE]
        ELSE Call(BindError(name.s, args))

\* the planner's rules on msg, the lower-cased message
Plan(user_message, msg) ==
    LET Remember(stripped) ==
            ToolAction("remember_info",
                       <<KV("note", JStr(IF stripped = "" THEN user_message ELSE stripped))>>)
    IN  IF Contains(msg, "check reminders") \/ Contains(msg, "any reminders")
           \/ Contains(msg, "show my reminders")
        THEN ToolAction("check_reminders", <<>>)
        ELSE IF Contains(msg, "remember")
        THEN Remember(Strip(Replace(user_message, "remember that", "")))
        ELSE IF Contains(msg, "recall") \/ Contains(msg, "what do you remember")
                \/ Contains(msg, "memory")
        THEN ToolAction("recall_memory", <<>>)
        ELSE IF Contains(msg, "search") \/ Contains(msg, "news")
        THEN ToolAction("web_search", <<KV("query", JStr(user_message))>>)
        ELSE IF Contains(msg, "remind") \/ Contains(msg, "reminder")
                \/ Contains(msg, "set a reminder")
        THEN ToolAction("set_reminder",
                        <<KV("message", JStr(user_message)),
                          KV("minutes_from_now", JNum(5))>>)
        ELSE RespondAction("Hi, I'm Jarvis running in offline mock mode. I received: "
                           \o user_message)

\* a planner that reads the message as typed
PlanAsTyped(user_message) == Plan(user_message, user_message)

\* _mock_decide_action(user_message), as the dict it returns
_mock_decide_action(user_message) == Plan(user_message, Lower(user_message))

EmptyContent == "I tried to respond, but my content was empty."
NotJson == "I could not understand my own JSON output."
InvalidAction == "I produced an invalid JSON action."
UnknownAction == "I produced an unknown action type."
NoAnswer == "I used a tool but couldn't form a response."

\* the text whether or not it is empty
TextAsIs(text, placeholder) == text

\* raw or placeholder
OrElse(text, placeholder) == IF text = "" THEN placeholder ELSE text

\* the content without the strip()
ContentAsGiven(action) ==
    LET Given(content) ==
            IF ~Truthy(content) THEN [raised |-> "", text |-> ""]
            ELSE IF content.ty = "str" THEN [raised |-> "", text |-> content.s]
            ELSE [raised |-> "AttributeError",
                  text |-> "'" \o TypeName(content) \o "' object has no attribute 'strip'"]
    IN  Given(Get(action, "content"))

\* (action.get("content") or "").strip(): raised where the content has no strip()
ContentText(action) ==
    LET Stripped(content) ==
            IF ~Truthy(content) THEN [raised |-> "", text |-> ""]
            ELSE IF content.ty = "str" THEN [raised |-> "", text |-> Strip(content.s)]
            ELSE [raised |-> "AttributeError",
                  text |-> "'" \o TypeName(content) \o "' object has no attribute 'strip'"]
    IN  Stripped(Get(action, "content"))

\* action.get("args") without the default
ArgsAsGiven(action) == Get(action, "args")

\* action.get("args") or {}
ArgsOf(action) ==
    LET Or(a) == IF Truthy(a) THEN a ELSE JObj(<<>>)
    IN  Or(Get(action, "args"))

\* where a turn goes after the decision: the next step, with the reply, the
\* exception, or the tool call
Outcome(next, reply, error, act, name, a) ==
    [next |-> next, reply |-> reply, error |-> error, action |-> act, name |-> name,
     args |-> a]

\* what chat does with the text of the decision call
Decide(text) ==
    LET Reply(act, c) ==
            IF c.raised # "" THEN Outcome("Raised", "", c.text, act, JNull, JNull)
            ELSE Outcome("Responding", OrElse(c.text, EmptyContent), "", act, JNull, JNull)
        Branch(act, kind) ==
            IF kind = JStr("respond") THEN Reply(act, ContentText(act))
            ELSE IF kind = JStr("tool")
            THEN Outcome("ToolExecuting", "", "", act, Get(act, "name"), ArgsOf(act))
            ELSE Outcome("Responding", OrElse(text, UnknownAction), "", act, JNull, JNull)
        Parsed(parsed) ==
            IF ~parsed.ok
            THEN Outcome("Responding", OrElse(text, NotJson), "", JNull, JNull, JNull)
            ELSE IF parsed.v.ty # "obj" \/ ~HasKey(parsed.v, "action")
            THEN Outcome("Responding", OrElse(text, InvalidAction), "", parsed.v, JNull, JNull)
            ELSE Branch(parsed.v, Get(parsed.v, "action"))
    IN  Parsed(Loads(text))

\* the prompt of the decision call, as the transcript it was built from and the rest
DecisionPrompt(d, user_message) ==
    [transcript |-> d,
     rest |-> "User: " \o user_message \o "\n"
              \o "Assistant (reply ONLY in JSON as specified above):"]

\* a follow-up prompt that leaves the tool result out
FollowupWithoutResult(d, user_message, name, args, result) ==
    [transcript |-> d,
     rest |-> "User: " \o user_message \o "\n"
              \o "Assistant decided to call a tool.\n"
              \o "Tool name: " \o PyStr(name) \o "\n"
              \o "Tool args: " \o Dumps(args) \o "\n\n"
              \o "Now Assistant, give the final, user-friendly answer (no JSON, just text):"]

\* the prompt of the summarization call
FollowupPrompt(d, user_message, name, args, result) ==
    [transcript |-> d,
     rest |-> "User: " \o user_message \o "\n"
              \o "Assistant decided to call a tool.\n"
              \o "Tool name: " \o PyStr(name) \o "\n"
              \o "Tool args: " \o Dumps(args) \o "\n"
              \o "Tool result: " \o result \o "\n\n"
              \o "Now Assistant, give the final, user-friendly answer (no JSON, just text):"]

NoPrompt == [transcript |-> "", rest |-> ""]

\* the prompt as the one string the backend receives
PromptText(p) == p.transcript \o p.rest

\* an append that leaves the user line out
TurnLinesReplyOnly(user_message, reply) == "Assistant: " \o reply \o "\n"

\* the lines a completed turn appends to the transcript
TurnLines(user_message, reply) ==
    "User: " \o user_message \o "\nAssistant: " \o reply \o "\n"

MockReply(name, result) ==
    "(Mock mode) I used tool '" \o PyStr(name) \o "' and got this result:\n\n" \o result

(***************************************************************************)
(* State                                                                   *)
(***************************************************************************)

VARIABLES
    LLM_BACKEND,     \* the backend selected at start-up
    dialogue,        \* self.dialogue, the rendered transcript
    memory,          \* the document of memory.json
    reminders,       \* the document of reminders.json
    now,             \* the clock
    pc,              \* where the turn is: Idle, Deciding, Decided, Responding,
                     \* ToolExecuting, Summarizing, Summarized, Done, Raised
    user_message,    \* chat's argument
    prompt,          \* the prompt of the last call of _call_model
    raw,             \* the text the decision call returned
    action,          \* the decided action
    tool_name,       \* action.get("name")
    args,            \* action.get("args") or {}
    tool_result,     \* what _run_tool returned
    final_text,      \* the text the summarization call returned
    reply_text,      \* the reply of the turn: what chat returns
    error,           \* the message of the exception that left chat
    turns,           \* turns begun
    ticks,           \* clock advances
    calls,           \* calls of _call_model in this turn
    failed,          \* the calls of this turn that failed at the backend
    lookups,         \* registry lookups in this turn
    tool_runs,       \* tool bodies entered in this turn
    compactions      \* compactions that rewrote the transcript, in the session

vars ==
    <<LLM_BACKEND, dialogue, memory, reminders, now, pc, user_message, prompt, raw,
      action, tool_name, args, tool_result, final_text, reply_text, error, turns,
      ticks, calls, failed, lookups, tool_runs, compactions>>

session == <<LLM_BACKEND, memory, reminders, now, ticks>>
files == <<memory, reminders>>
turn_locals == <<raw, action, tool_name, args, tool_result, final_text, reply_text, error>>
counters == <<calls, failed, lookups, tool_runs>>

(***************************************************************************)
(* Inputs                                                                  *)
(***************************************************************************)

\* a message long enough to push the transcript over the budget in one turn
LongMessage == Repeat("lorem ipsum ", LongRepeats)

SessionMessages == {"check reminders", LongMessage}

SessionDecisions ==
    {"Sure thing",
     "{\"action\": \"tool\", \"name\": \"recall_memory\", \"args\": {}}"}

SessionSummaries == {"Done."}

BackendErrors == {"503 service unavailable"}

WideMessages == {"Hello there ", "check reminders"}

\* the pieces planner inputs are put together from
PlannerFragments ==
    {"check reminders", "Any Reminders?", "show my reminders", "remember that ",
     "Remember", "recall", "What do you remember", "MEMORY", "search ", "News",
     "remind me", "reminder", "set a reminder", "hello ", " ", "re"}

\* the fragments of f, one after the other
RECURSIVE Concat(_)
Concat(f) == IF f = <<>> THEN "" ELSE Head(f) \o Concat(Tail(f))

PlannerMessages ==
    {Concat(f) : f \in UNION {[1..n -> PlannerFragments] : n \in 0..MaxFragments}}

WideDecisions ==
    {"Sure thing",
     "",
     "  Sure thing \n",
     "5",
     "{\"content\": \"no discriminator\"}",
     "{\"action\": \"dance\"}",
     "{\"action\": \"respond\", \"content\": \"Hello\"}",
     "{\"action\": \"respond\", \"content\": \" Hello \"}",
     "{\"action\": \"respond\"}",
     "{\"action\": \"respond\", \"content\": \"\"}",
     "{\"action\": \"respond\", \"content\": \"  \"}",
     "{\"action\": \"respond\", \"content\": null}",
     "{\"action\": \"respond\", \"content\": 5}",
     "{\"action\":\"tool\",\"name\":\"recall_memory\",\"args\":{}}",
     "{\"action\": \"tool\", \"name\": \"recall_memory\"}",
     "{\"action\": \"tool\", \"args\": {}}",
     "{\"action\": \"tool\", \"name\": \"nonexistent_tool\", \"args\": {}}",
     "{\"action\": \"tool\", \"name\": [\"recall_memory\"], \"args\": {}}",
     "{\"action\": \"tool\", \"name\": \"remember_info\", \"args\": {\"note\": \"buy milk\"}}",
     "{\"action\": \"tool\", \"name\": \"remember_info\", \"args\": {\"text\": \"buy milk\"}}",
     "{\"action\": \"tool\", \"name\": \"remember_info\", \"args\": [\"buy milk\"]}",
     "{\n  \"action\": \"tool\",\n  \"name\": \"set_reminder\",\n  \"args\": {\"message\": \"ping\", \"minutes_from_now\": 0}\n}",
     "{\"action\": \"tool\", \"name\": \"set_reminder\", \"args\": {\"message\": \"ping\", \"minutes_from_now\": \"soon\"}}",
     "{\"action\": \"tool\", \"name\": \"set_reminder\", \"args\": {\"message\": \"ping\"}}",
     "{\"action\": \"tool\", \"name\": \"check_reminders\", \"args\": {}}",
     "{\"action\": \"tool\", \"name\": \"web_search\", \"args\": {\"query\": \"weather\"}}",
     "{\"action\": \"tool\", \"name\": \"read_file\", \"args\": {\"path\": \"notes.txt\"}}"}

WideSummaries == {"Here is what I found.", " Here is what I found. \n", "", "   "}

\* what the backend does with a request, for the session and the wide inputs
SessionDecisionOutcomes ==
    {Answer(t) : t \in SessionDecisions} \cup {CallError(e) : e \in BackendErrors}

SessionSummaryOutcomes ==
    {Answer(t) : t \in SessionSummaries} \cup {CallError(e) : e \in BackendErrors}

WideDecisionOutcomes ==
    {Answer(t) : t \in WideDecisions}
    \cup {CallError(e) : e \in BackendErrors}
    \cup {AnswerParts(<<"Sure", "", "thing">>), AnswerBroken}

WideSummaryOutcomes ==
    {Answer(t) : t \in WideSummaries}
    \cup {CallError(e) : e \in BackendErrors}
    \cup {AnswerParts(<<"Here is", "what I found.">>), AnswerBroken}

TickSteps == {500, MsPerMinute}

(***************************************************************************)
(* Construction and the steps of chat                                      *)
(***************************************************************************)

Init ==
    /\ LLM_BACKEND \in Backends
    /\ dialogue = InitialDialogue
    /\ memory = JList(<<>>)
    /\ reminders = JList(<<>>)
    /\ now = ClockStart
    /\ pc = "Idle"
    /\ user_message = ""
    /\ prompt = NoPrompt
    /\ raw = ""
    /\ action = JNull
    /\ tool_name = JNull
    /\ args = JNull
    /\ tool_result = ""
    /\ final_text = ""
    /\ reply_text = ""
    /\ error = ""
    /\ turns = 0
    /\ ticks = 0
    /\ calls = 0
    /\ failed = {}
    /\ lookups = 0
    /\ tool_runs = 0
    /\ compactions = 0

\* chat is not running
BetweenTurns == pc \in {"Idle", "Done", "Raised"}

\* time passes between two turns
Tick(bound) ==
    /\ BetweenTurns
    /\ ticks < bound
    /\ \E d \in TickSteps : now' = now + d
    /\ ticks' = ticks + 1
    /\ UNCHANGED <<LLM_BACKEND, dialogue, memory, reminders, pc, user_message, prompt,
                   turn_locals, turns, counters, compactions>>

\* chat(user_message) is entered; with a remote backend the decision prompt is built
\* and _call_model is called
Chat(messages, bound) ==
    /\ BetweenTurns
    /\ turns < bound
    /\ \E m \in messages :
          /\ user_message' = m
          /\ prompt' = IF LLM_BACKEND = "mock" THEN NoPrompt ELSE DecisionPrompt(dialogue, m)
    /\ pc' = "Deciding"
    /\ turns' = turns + 1
    /\ raw' = ""
    /\ action' = JNull
    /\ tool_name' = JNull
    /\ args' = JNull
    /\ tool_result' = ""
    /\ final_text' = ""
    /\ reply_text' = ""
    /\ error' = ""
    /\ calls' = 0
    /\ failed' = {}
    /\ lookups' = 0
    /\ tool_runs' = 0
    /\ UNCHANGED <<session, dialogue, compactions>>

\* the rule-based planner decides
MockDecide ==
    /\ pc = "Deciding"
    /\ LLM_BACKEND = "mock"
    /\ \E act \in {_mock_decide_action(user_message)} :
           /\ action' = act
           /\ IF Get(act, "action") = JStr("respond")
              THEN /\ reply_text' = OrElse(ContentText(act).text, EmptyContent)
                   /\ pc' = "Responding"
                   /\ UNCHANGED <<tool_name, args>>
              ELSE /\ tool_name' = Get(act, "name")
                   /\ args' = ArgsOf(act)
                   /\ pc' = "ToolExecuting"
                   /\ UNCHANGED reply_text
    /\ UNCHANGED <<session, dialogue, user_message, prompt, raw, tool_result, final_text,
                   error, turns, counters, compactions>>

\* _call_model(prompt) for the decision: the transcript is compacted, the backend
\* answers or fails, the text comes back
DecisionCall(outcomes) ==
    /\ pc = "Deciding"
    /\ LLM_BACKEND # "mock"
    /\ dialogue' = _compact_context(dialogue)
    /\ compactions' = IF dialogue' # dialogue THEN compactions + 1 ELSE compactions
    /\ \E out \in outcomes :
          /\ raw' = _call_model(LLM_BACKEND, out)
          /\ failed' = IF BackendFailed(LLM_BACKEND, out) THEN failed \cup {"decision"}
                       ELSE failed
    /\ calls' = calls + 1
    /\ pc' = "Decided"
    /\ UNCHANGED <<session, user_message, prompt, action, tool_name, args, tool_result,
                   final_text, reply_text, error, turns, lookups, tool_runs>>

\* chat parses the text and takes the respond path, the tool path or a fallback
Dispatch ==
    /\ pc = "Decided"
    /\ \E d \in {Decide(raw)} :
           /\ pc' = d.next
           /\ action' = d.action
           /\ reply_text' = d.reply
           /\ error' = d.error
           /\ tool_name' = d.name
           /\ args' = d.args
    /\ UNCHANGED <<session, dialogue, user_message, prompt, raw, tool_result, final_text,
                   turns, counters, compactions>>

\* the reply is appended to the transcript and returned
Respond ==
    /\ pc = "Responding"
    /\ dialogue' = dialogue \o TurnLines(user_message, reply_text)
    /\ pc' = "Done"
    /\ UNCHANGED <<session, user_message, prompt, turn_locals, turns, counters, compactions>>

\* _run_tool(tool_name, args); in mock mode its result is the reply, with a remote
\* backend the follow-up prompt is built and _call_model is called
RunTool ==
    /\ pc = "ToolExecuting"
    /\ \E r \in {_run_tool(tool_name, args, now, memory, reminders, outcome) :
                    outcome \in SearchOutcomes} :
              /\ memory' = r.memory
              /\ reminders' = r.reminders
              /\ lookups' = lookups + 1
              /\ tool_runs' = IF r.ran THEN tool_runs + 1 ELSE tool_runs
              /\ IF r.raised # ""
                 THEN /\ pc' = "Raised"
                      /\ error' = r.text
                      /\ UNCHANGED <<dialogue, prompt, tool_result, reply_text>>
                 ELSE IF LLM_BACKEND = "mock"
                 THEN /\ tool_result' = r.text
                      /\ reply_text' = MockReply(tool_name, r.text)
                      /\ dialogue' = dialogue \o TurnLines(user_message, reply_text')
                      /\ pc' = "Done"
                      /\ UNCHANGED <<prompt, error>>
                 ELSE /\ tool_result' = r.text
                      /\ prompt' = FollowupPrompt(dialogue, user_message, tool_name, args,
                                                  r.text)
                      /\ pc' = "Summarizing"
                      /\ UNCHANGED <<dialogue, reply_text, error>>
    /\ UNCHANGED <<LLM_BACKEND, now, ticks, user_message, raw, action, tool_name, args,
                   final_text, turns, calls, failed, compactions>>

\* _call_model(followup_prompt) for the final answer
SummaryCall(outcomes) ==
    /\ pc = "Summarizing"
    /\ dialogue' = _compact_context(dialogue)
    /\ compactions' = IF dialogue' # dialogue THEN compactions + 1 ELSE compactions
    /\ \E out \in outcomes :
          /\ final_text' = _call_model(LLM_BACKEND, out)
          /\ failed' = IF BackendFailed(LLM_BACKEND, out) THEN failed \cup {"summary"}
                       ELSE failed
    /\ calls' = calls + 1
    /\ pc' = "Summarized"
    /\ UNCHANGED <<session, user_message, prompt, raw, action, tool_name, args, tool_result,
                   reply_text, error, turns, lookups, tool_runs>>

\* the trimmed final text is appended to the transcript and returned
Finish ==
    /\ pc = "Summarized"
    /\ reply_text' = OrElse(Strip(final_text), NoAnswer)
    /\ dialogue' = dialogue \o TurnLines(user_message, reply_text')
    /\ pc' = "Done"
    /\ UNCHANGED <<session, user_message, prompt, raw, action, tool_name, args, tool_result,
                   final_text, error, turns, counters, compactions>>

\* one step of a turn whose inputs are drawn from the given sets
Step(messages, decisions, summaries, turnBound) ==
    \/ Chat(messages, turnBound)
    \/ MockDecide
    \/ DecisionCall(decisions)
    \/ Dispatch
    \/ Respond
    \/ RunTool
    \/ SummaryCall(summaries)
    \/ Finish

\* a session of a few turns, the clock running: long messages, few backend answers
Next ==
    \/ Tick(MaxTicks)
    \/ Step(SessionMessages, SessionDecisionOutcomes, SessionSummaryOutcomes, MaxTurns)

Spec == Init /\ [][Next]_vars

\* a short session fed everything the backend can answer
NextWide == Step(WideMessages, WideDecisionOutcomes, WideSummaryOutcomes, MaxWideTurns)

SpecWide == Init /\ [][NextWide]_vars

\* the rule-based planner on every message put together from the fragments: a
\* fresh agent in mock mode whose chat has just been entered
InitPlanner ==
    /\ LLM_BACKEND = "mock"
    /\ dialogue = InitialDialogue
    /\ memory = JList(<<>>)
    /\ reminders = JList(<<>>)
    /\ now = ClockStart
    /\ pc = "Deciding"
    /\ user_message \in PlannerMessages
    /\ prompt = NoPrompt
    /\ raw = ""
    /\ action = JNull
    /\ tool_name = JNull
    /\ args = JNull
    /\ tool_result = ""
    /\ final_text = ""
    /\ reply_text = ""
    /\ error = ""
    /\ turns = 1
    /\ ticks = 0
    /\ calls = 0
    /\ failed = {}
    /\ lookups = 0
    /\ tool_runs = 0
    /\ compactions = 0

NextPlanner ==
    \/ MockDecide
    \/ Respond
    \/ RunTool

SpecPlanner == InitPlanner /\ [][NextPlanner]_vars

(***************************************************************************)
(* The tools called directly, as a test of src/tools.py calls them         *)
(***************************************************************************)

\* a call of a tool: its registry name and its keyword arguments
Request(name, kw) == [name |-> name, kw |-> JObj(kw)]

ReminderCalls ==
    {Request("set_reminder", <<KV("message", JStr("ping")), KV("minutes_from_now", JNum(0))>>),
     Request("set_reminder", <<KV("message", JStr("tea")), KV("minutes_from_now", JNum(1))>>),
     Request("check_reminders", <<>>)}

MemoryCalls ==
    {Request("remember_info", <<KV("note", JStr("buy milk"))>>),
     Request("remember_info", <<KV("note", JStr("call mom"))>>),
     Request("recall_memory", <<>>)}

\* the clock between two direct calls: half a second, and the rest of a minute
ElapseSteps == {500, MsPerMinute - 500}

\* memory.json after k calls of remember_info, one a minute, the last a minute ago
StoredNotes(k) ==
    JList([i \in 1..k |->
              JObj(<<KV("timestamp", JStr(isoformat(ClockStart - (k - i + 1) * MsPerMinute))),
                     KV("note", JStr("note " \o ToString(i)))>>)])

PathSegments ==
    {"..", ".", "", "notes.txt", "agent", "agent-private", "key.txt", "etc", "hostname"}

\* the paths of up to MaxSegments segments
FilePaths ==
    {Join("/", s) : s \in UNION {[1..n -> PathSegments] : n \in 1..MaxSegments}}

\* a process that has imported the tools and called none
InitTools ==
    /\ LLM_BACKEND = "mock"
    /\ dialogue = InitialDialogue
    /\ memory = JList(<<>>)
    /\ reminders = JList(<<>>)
    /\ now = ClockStart
    /\ pc = "Idle"
    /\ user_message = ""
    /\ prompt = NoPrompt
    /\ raw = ""
    /\ action = JNull
    /\ tool_name = JNull
    /\ args = JNull
    /\ tool_result = ""
    /\ final_text = ""
    /\ reply_text = ""
    /\ error = ""
    /\ turns = 0
    /\ ticks = 0
    /\ calls = 0
    /\ failed = {}
    /\ lookups = 0
    /\ tool_runs = 0
    /\ compactions = 0

\* TOOLS[name](**kw) is called and returns (or raises); pc is "Done" while nothing
\* has happened since the call
CallTool(requests, bound) ==
    /\ pc \in {"Idle", "Done"}
    /\ tool_runs < bound
    /\ \E q \in requests :
          \E r \in {Invoke(q.name, q.kw, now, memory, reminders, "results")} :
              /\ tool_name' = JStr(q.name)
              /\ args' = q.kw
              /\ tool_result' = r.text
              /\ error' = r.raised
              /\ memory' = r.memory
              /\ reminders' = r.reminders
    /\ tool_runs' = tool_runs + 1
    /\ pc' = "Done"
    /\ UNCHANGED <<LLM_BACKEND, dialogue, now, ticks, user_message, prompt, raw, action,
                   final_text, reply_text, turns, calls, failed, lookups, compactions>>

\* time passes between two direct calls
Elapse(bound) ==
    /\ pc \in {"Idle", "Done"}
    /\ ticks < bound
    /\ \E d \in ElapseSteps : now' = now + d
    /\ ticks' = ticks + 1
    /\ pc' = "Idle"
    /\ UNCHANGED <<LLM_BACKEND, dialogue, memory, reminders, user_message, prompt,
                   turn_locals, turns, counters, compactions>>

\* set_reminder and check_reminders in any order, the clock running
NextReminders ==
    \/ Elapse(MaxElapses)
    \/ CallTool(ReminderCalls, MaxToolCalls)

SpecReminders == InitTools /\ [][NextReminders]_vars

\* remember_info and recall_memory in any order on a memory.json of any size up to
\* MaxStored
InitMemory ==
    /\ LLM_BACKEND = "mock"
    /\ dialogue = InitialDialogue
    /\ memory \in {StoredNotes(k) : k \in 0..MaxStored}
    /\ reminders = JList(<<>>)
    /\ now = ClockStart
    /\ pc = "Idle"
    /\ user_message = ""
    /\ prompt = NoPrompt
    /\ raw = ""
    /\ action = JNull
    /\ tool_name = JNull
    /\ args = JNull
    /\ tool_result = ""
    /\ final_text = ""
    /\ reply_text = ""
    /\ error = ""
    /\ turns = 0
    /\ ticks = 0
    /\ calls = 0
    /\ failed = {}
    /\ lookups = 0
    /\ tool_runs = 0
    /\ compactions = 0

NextMemory ==
    \/ Elapse(MaxElapses)
    \/ CallTool(MemoryCalls, MaxToolCalls)

SpecMemory == InitMemory /\ [][NextMemory]_vars

\* read_file on every path: a backend-driven turn whose decision is the tool
\* object that names read_file with the path
InitFiles ==
    /\ LLM_BACKEND = "hf"
    /\ dialogue = InitialDialogue
    /\ memory = JList(<<>>)
    /\ reminders = JList(<<>>)
    /\ now = ClockStart
    /\ pc = "ToolExecuting"
    /\ user_message = "read it"
    /\ prompt = DecisionPrompt(InitialDialogue, "read it")
    /\ \E p \in FilePaths :
          /\ action = ToolAction("read_file", <<KV("path", JStr(p))>>)
          /\ raw = Dumps(action)
          /\ args = JObj(<<KV("path", JStr(p))>>)
    /\ tool_name = JStr("read_file")
    /\ tool_result = ""
    /\ final_text = ""
    /\ reply_text = ""
    /\ error = ""
    /\ turns = 1
    /\ ticks = 0
    /\ calls = 1
    /\ failed = {}
    /\ lookups = 0
    /\ tool_runs = 0
    /\ compactions = 0

NextFiles == RunTool

SpecFiles == InitFiles /\ [][NextFiles]_vars

(***************************************************************************)
(* Properties                                                              *)
(***************************************************************************)

\* backend-driven mode
Remote == LLM_BACKEND # "mock"

\* s is the serialization of a JSON object
IsJsonObject(s) ==
    LET Obj(p) == p.ok /\ p.v.ty = "obj"
    IN  Obj(Loads(s))

\* the decided action is a respond object, a tool object
RespondDecided == action.ty = "obj" /\ Get(action, "action") = JStr("respond")
ToolDecided == action.ty = "obj" /\ Get(action, "action") = JStr("tool")

\* the transcript ends with the lines of this turn
TurnAppended ==
    LastChars(dialogue, Len(TurnLines(user_message, reply_text)))
        = TurnLines(user_message, reply_text)

\* C1: once chat has begun it never raises, and what it returns is a non-empty
\* string, whatever text the backend returned.
C1_ChatAlwaysReturnsText == pc # "Raised" /\ (pc = "Done" => reply_text # "")

\* the apology of the selected backend
Apology == IF LLM_BACKEND = "hf" THEN HfApology ELSE GeminiApology

\* C2: a turn in which a backend call failed (the decision call or the
\* summarization call) returns text that contains the apology and is not a
\* serialized JSON object.
C2_FailedCallYieldsApology ==
    (pc = "Done" /\ failed # {}) =>
        (Contains(reply_text, Apology) /\ ~IsJsonObject(reply_text))

\* C3: in every reachable state of a session, in any mode and after any number of
\* compactions, the transcript begins with the system instruction.
C3_TranscriptBeginsWithInstruction == StartsWith(dialogue, SystemInstruction)

\* a turn has ended after the transcript was compacted twice
C3_CompactedTwice == pc = "Done" /\ compactions >= 2

\* C4: a compaction (one runs at every call of _call_model) changes the transcript
\* if and only if it is longer than the budget of 8000; the new transcript is then
\* the system instruction, the notice and the last 4000 characters of the old one,
\* at most len(system instruction) + len(notice) + 4000 characters.
C4_CompactionOnlyOverBudget ==
    [][calls' = calls + 1 =>
          /\ (dialogue' # dialogue) <=> (Len(dialogue) > 8000)
          /\ (dialogue' # dialogue) =>
                /\ dialogue' = SystemInstruction \o CompactionNotice
                               \o LastChars(dialogue, 4000)
                /\ Len(dialogue') <= Len(SystemInstruction) + Len(CompactionNotice) + 4000
      ]_vars

\* the decision call has just compacted the transcript
C4_JustCompacted ==
    /\ pc = "Decided"
    /\ compactions >= 1
    /\ Len(dialogue) = Len(SystemInstruction) + Len(CompactionNotice) + 4000

\* a bound on the transcript at the end of a turn that compaction keeps: the budget
\* and the lines of two turns with the longest message
TranscriptBound == max_dialogue_chars + 2 * (Len(LongMessage) + 200)

\* C5: in either mode the transcript at the end of every turn stays below a bound
\* that does not depend on the number of turns.
C5_TranscriptBounded == pc = "Done" => Len(dialogue) <= TranscriptBound

\* the planner's rules as the specification lists them: the triggers, in order,
\* and the tool each selects
PlannerRules ==
    <<[triggers |-> {"check reminders", "any reminders", "show my reminders"},
       tool |-> "check_reminders"],
      [triggers |-> {"remember"}, tool |-> "remember_info"],
      [triggers |-> {"recall", "what do you remember", "memory"}, tool |-> "recall_memory"],
      [triggers |-> {"search", "news"}, tool |-> "web_search"],
      [triggers |-> {"remind", "reminder"}, tool |-> "set_reminder"]>>

\* the first rule one of whose triggers msg contains, 0 when there is none
FirstMatch(msg) ==
    LET First(hits) == IF hits = {} THEN 0 ELSE MinOf(hits)
    IN  First({i \in 1..Len(PlannerRules) :
                  \E t \in PlannerRules[i].triggers : Contains(msg, t)})

\* C6: the rule-based planner tests its triggers on the lower-cased message in the
\* fixed order check_reminders, remember_info, recall_memory, web_search,
\* set_reminder, first match wins; no match gives a respond action that echoes the
\* message.
C6_PlannerOrder ==
    (LLM_BACKEND = "mock" /\ action # JNull) =>
        LET Selected(i) ==
                IF i = 0
                THEN /\ RespondDecided
                     /\ Get(action, "content").ty = "str"
                     /\ Contains(Get(action, "content").s, user_message)
                ELSE /\ ToolDecided
                     /\ Get(action, "name") = JStr(PlannerRules[i].tool)
        IN  Selected(FirstMatch(Lower(user_message)))

\* a message with a reminder-check phrase, in capitals, and "remember" before it
\* has selected check_reminders
C6_CheckBeatsRemember ==
    /\ pc = "ToolExecuting"
    /\ tool_name = JStr("check_reminders")
    /\ Contains(user_message, "Remember")
    /\ Contains(user_message, "Any Reminders")

\* C7: in backend-driven mode, text that is not JSON is itself the reply (a fixed
\* placeholder when it is empty); JSON that is not an object with the action
\* "respond" or "tool" makes the raw text the reply; a respond object with empty
\* content makes a fixed placeholder the reply; none of these runs a tool or calls
\* the backend again.
C7_ParsingFailurePolicy ==
    (Remote /\ pc \in {"Responding", "ToolExecuting", "Summarizing", "Summarized",
                       "Done", "Raised"}) =>
        LET Fallback(reply) ==
                /\ pc \in {"Responding", "Done"}
                /\ reply_text = reply
                /\ calls = 1
                /\ lookups = 0
                /\ tool_runs = 0
            Policy(p) ==
                IF ~p.ok
                THEN Fallback(IF raw = "" THEN "I could not understand my own JSON output."
                              ELSE raw)
                ELSE IF \/ p.v.ty # "obj"
                        \/ ~HasKey(p.v, "action")
                        \/ Get(p.v, "action") \notin {JStr("respond"), JStr("tool")}
                THEN Fallback(raw)
                ELSE IF Get(p.v, "action") = JStr("respond")
                        /\ HasKey(p.v, "content") /\ Get(p.v, "content") = JStr("")
                THEN Fallback("I tried to respond, but my content was empty.")
                ELSE TRUE
        IN  Policy(Loads(raw))

\* the backend returned nothing and the turn ended with the placeholder
C7_EmptyTextAnswered ==
    /\ Remote
    /\ pc = "Done"
    /\ raw = ""
    /\ calls = 1
    /\ reply_text = "I could not understand my own JSON output."

\* v is one of the two wire shapes
WireShape(v) ==
    /\ v.ty = "obj"
    /\ \/ /\ Get(v, "action") = JStr("respond")
          /\ HasKey(v, "content") /\ Get(v, "content").ty = "str"
       \/ /\ Get(v, "action") = JStr("tool")
          /\ HasKey(v, "name") /\ Get(v, "name").ty = "str"
          /\ HasKey(v, "args") /\ Get(v, "args").ty = "obj"

\* C8 as stated: in backend-driven mode JSON of any shape other than the two wire
\* shapes makes the raw text the reply, and no tool is looked up or run.
C8_OtherShapesDegrade ==
    (Remote /\ pc \in {"Responding", "ToolExecuting", "Summarizing", "Summarized",
                       "Done", "Raised"}) =>
        LET Degrades(p) ==
                (p.ok /\ ~WireShape(p.v)) =>
                    /\ pc \in {"Responding", "Done"}
                    /\ reply_text = raw
                    /\ lookups = 0
                    /\ tool_runs = 0
        IN  Degrades(Loads(raw))

\* C8: in backend-driven mode only JSON that is not an object whose action is
\* "respond" or "tool" makes the raw text the reply without a lookup. A respond
\* object whose content is missing, null or empty gives the empty-content
\* placeholder. A tool object without a name is looked up under None: no tool runs
\* and the "not implemented" text is the tool result. A tool object whose args are
\* missing, null or empty has the named tool looked up and called with no arguments.
C8_OnlyTheDiscriminatorDecides ==
    (Remote /\ pc \in {"Responding", "ToolExecuting", "Summarizing", "Summarized",
                       "Done", "Raised"}) =>
        LET Looked == pc \in {"Summarizing", "Summarized", "Done"}
            Acted(v) ==
                IF \/ v.ty # "obj"
                   \/ Get(v, "action") \notin {JStr("respond"), JStr("tool")}
                THEN /\ pc \in {"Responding", "Done"}
                     /\ reply_text = raw
                     /\ lookups = 0
                     /\ tool_runs = 0
                ELSE IF Get(v, "action") = JStr("respond")
                THEN ~Truthy(Get(v, "content")) =>
                        /\ pc \in {"Responding", "Done"}
                        /\ reply_text = "I tried to respond, but my content was empty."
                        /\ lookups = 0
                        /\ tool_runs = 0
                ELSE /\ ~HasKey(v, "name") =>
                        /\ pc \in {"ToolExecuting", "Summarizing", "Summarized", "Done"}
                        /\ tool_name = JNull
                        /\ Looked =>
                              /\ lookups = 1
                              /\ tool_runs = 0
                              /\ tool_result = "Error: tool 'None' is not implemented."
                     /\ (~Truthy(Get(v, "args")) /\ Get(v, "name").ty = "str") =>
                        /\ pc \in {"ToolExecuting", "Summarizing", "Summarized", "Done"}
                        /\ args = JObj(<<>>)
                        /\ Looked =>
                              /\ lookups = 1
                              /\ tool_runs = IF Get(v, "name").s \in DOMAIN TOOLS
                                                /\ TOOLS[Get(v, "name").s] = <<>>
                                             THEN 1 ELSE 0
            Parsed(p) == p.ok => Acted(p.v)
        IN  Parsed(Loads(raw))

\* a tool object without args has run its tool
C8_ToolWithoutArgsRan ==
    /\ Remote
    /\ pc = "Done"
    /\ ToolDecided
    /\ ~HasKey(action, "args")
    /\ tool_name = JStr("recall_memory")
    /\ tool_runs = 1

\* the reply of a respond turn as C9 states it: the content, the placeholder when
\* there is none
ContentOrPlaceholder(content) ==
    IF content.ty = "str" /\ content.s # "" THEN content.s
    ELSE "I tried to respond, but my content was empty."

\* C9 as stated: a respond turn returns the action's content (the placeholder if it
\* is empty), appends it to the transcript, runs no tool, and calls the backend
\* once in backend-driven mode and never in rule-based mode.
C9_RespondReturnsContent ==
    (RespondDecided /\ pc = "Done") =>
        /\ reply_text = ContentOrPlaceholder(Get(action, "content"))
        /\ TurnAppended
        /\ lookups = 0
        /\ tool_runs = 0
        /\ calls = IF Remote THEN 1 ELSE 0

\* C9: a respond turn returns the action's content with the whitespace around it
\* trimmed (the placeholder if nothing is left, or if the content is missing, null
\* or another empty value), appends that to the transcript, runs no tool, and calls
\* the backend once in backend-driven mode and never in rule-based mode; content
\* that is a number, true, or a non-empty array or object makes chat raise before
\* anything is appended.
C9_RespondReturnsTrimmedContent ==
    (RespondDecided /\ pc \in {"Responding", "Done", "Raised"}) =>
        LET Returned(content) ==
                IF Truthy(content) /\ content.ty # "str"
                THEN pc = "Raised" /\ reply_text = ""
                ELSE /\ pc \in {"Responding", "Done"}
                     /\ reply_text =
                            IF ~Truthy(content) \/ Strip(content.s) = ""
                            THEN "I tried to respond, but my content was empty."
                            ELSE Strip(content.s)
                     /\ pc = "Done" => TurnAppended
            IN  /\ Returned(Get(action, "content"))
                /\ lookups = 0
                /\ tool_runs = 0
                /\ calls = IF Remote THEN 1 ELSE 0

\* a respond turn has returned its padded content trimmed
C9_PaddedContentTrimmed ==
    /\ Remote
    /\ pc = "Done"
    /\ RespondDecided
    /\ Get(action, "content") = JStr(" Hello ")
    /\ reply_text = "Hello"

\* the reply of a summarized turn: the trimmed text of the follow-up call, the
\* placeholder if it is empty
Summarized ==
    reply_text = IF Strip(final_text) = "" THEN "I used a tool but couldn't form a response."
                 ELSE Strip(final_text)

\* C10 as stated: in either mode a turn that decided a tool call ends after one
\* lookup, at most one tool run and one follow-up call of the backend, whose
\* trimmed text (the placeholder if it is empty) is the reply; it never raises.
C10_ToolTurnSummarized ==
    ToolDecided =>
        /\ pc # "Raised"
        /\ pc = "Done" =>
              /\ lookups = 1
              /\ tool_runs <= 1
              /\ calls = IF Remote THEN 2 ELSE 1
              /\ Summarized

\* C10: a turn decides one action. In backend-driven mode a tool call whose name is
\* a string, a number, a boolean or null is looked up once, runs at most one tool
\* and, whatever the tool's outcome, is followed by exactly one follow-up call whose
\* prompt is the transcript, the message, the tool name, the arguments and the
\* result; that call's trimmed text (the placeholder if it is empty) is the reply.
\* A name that is an array or an object makes chat raise at the lookup, with no
\* follow-up call. In rule-based mode a tool turn makes no backend call: the reply
\* is the fixed mock line with the tool name and the result.
C10_ToolTurnByMode ==
    ToolDecided =>
        /\ tool_name = Get(action, "name")
        /\ pc \in {"ToolExecuting", "Summarizing", "Summarized", "Done", "Raised"}
        /\ pc = "ToolExecuting" => lookups = 0 /\ tool_runs = 0
        /\ pc # "ToolExecuting" => lookups = 1 /\ tool_runs <= 1
        /\ pc = "Raised" <=> (pc # "ToolExecuting" /\ tool_name.ty \in {"list", "obj"})
        /\ IF Remote
           THEN /\ calls = IF pc \in {"Summarized", "Done"} THEN 2 ELSE 1
                /\ pc \in {"Summarizing", "Summarized", "Done"} =>
                      /\ pc = "Summarizing" => prompt.transcript = dialogue
                      /\ StartsWith(prompt.rest, "User: " \o user_message \o "\n")
                      /\ Contains(prompt.rest, "Tool name: " \o PyStr(tool_name) \o "\n")
                      /\ Contains(prompt.rest, "Tool args: " \o Dumps(args) \o "\n")
                      /\ Contains(prompt.rest, "Tool result: " \o tool_result \o "\n")
                /\ pc = "Done" => Summarized /\ TurnAppended
           ELSE /\ calls = 0
                /\ pc \in {"ToolExecuting", "Done"}
                /\ pc = "Done" =>
                      /\ reply_text = "(Mock mode) I used tool '" \o PyStr(tool_name)
                                      \o "' and got this result:\n\n" \o tool_result
                      /\ TurnAppended

\* a tool call that failed at the lookup has been summarized by the follow-up call
C10_FailureSummarized ==
    /\ Remote
    /\ pc = "Done"
    /\ tool_name = JStr("nonexistent_tool")
    /\ tool_result = "Error: tool 'nonexistent_tool' is not implemented."
    /\ calls = 2
    /\ reply_text = "Here is what I found."

\* C11: a tool call whose name is not in the registry does not abort the turn and
\* runs no tool: the failure text naming the tool is the tool's result, it is fed
\* into the summarization prompt, and the turn ends with a reply.
C11_UnknownToolReported ==
    (Remote /\ ToolDecided /\ ~Registered(tool_name) /\ pc # "ToolExecuting") =>
        /\ pc \in {"Summarizing", "Summarized", "Done"}
        /\ tool_runs = 0
        /\ tool_result = "Error: tool '" \o PyStr(tool_name) \o "' is not implemented."
        /\ Contains(prompt.rest, tool_result)
        /\ pc = "Done" => reply_text # ""

\* C12: _run_tool always returns a string: no call of it, whatever the name and
\* the args the planner or the backend supplied, lets an error leave it.
C12_RunToolAlwaysReturns ==
    [][pc = "ToolExecuting" => (pc' \in {"Summarizing", "Done"} /\ error' = "")]_vars

\* C13 as stated: the tool exchange of a completed turn (here the raw tool result)
\* is not in the transcript.
C13_ToolResultNotInTranscript ==
    (pc = "Done" /\ ToolDecided) => ~Contains(dialogue, tool_result)

\* C13: the step that completes a turn appends exactly the user line with the
\* message and the assistant line with the reply chat returns, and no other step
\* of a turn appends anything (a backend call can only compact the transcript).
\* In backend-driven mode the reply is the follow-up call's text, so nothing of
\* the tool exchange is appended beside it; in rule-based mode the reply of a tool
\* turn is itself the mock line that holds the tool name and the raw tool result.
C13_TurnAppendsMessageAndReply ==
    [][/\ (pc # "Done" /\ pc' = "Done") =>
             /\ dialogue' = dialogue \o "User: " \o user_message \o "\n"
                            \o "Assistant: " \o reply_text' \o "\n"
             /\ (ToolDecided /\ Remote) =>
                   reply_text' = IF Strip(final_text) = ""
                                 THEN "I used a tool but couldn't form a response."
                                 ELSE Strip(final_text)
             /\ (ToolDecided /\ ~Remote) =>
                   reply_text' = "(Mock mode) I used tool '" \o PyStr(tool_name)
                                 \o "' and got this result:\n\n" \o tool_result'
       /\ ~(pc # "Done" /\ pc' = "Done") =>
             \/ dialogue' = dialogue
             \/ dialogue' = SystemInstruction \o CompactionNotice
                            \o LastChars(dialogue, 4000)
      ]_vars

\* a tool turn of a backend-driven session has ended after a compaction
C13_ToolTurnCompleted ==
    /\ Remote
    /\ pc = "Done"
    /\ ToolDecided
    /\ compactions >= 1
    /\ TurnAppended

\* the fields of a stored reminder
Delivered(r) == Get(r, "delivered") = JBool(TRUE)
DueAt(r) == fromisoformat(Get(r, "due_at").s).t
CreatedAt(r) == fromisoformat(Get(r, "created_at").s).t

\* the line check_reminders returns for a reminder
ReminderLine(r) == "- " \o Get(r, "message").s \o " (due at " \o Get(r, "due_at").s \o ")"

NoneDue == "You don't have any reminders due right now."

\* the step is a direct call of the tool
CallOf(name) == tool_runs' = tool_runs + 1 /\ tool_name' = JStr(name)

\* the last thing that happened is a direct call of the tool
JustCalled(name) == pc = "Done" /\ tool_name = JStr(name)

Resolved == abspath_join(BASE_DIR, Get(args, "path").s)

\* a location is the root directory or below it
InsideRoot(full) == full = BASE_DIR \/ StartsWith(full, BASE_DIR \o "/")

\* C17: read_file returns the access-denied text, and no file content, for every
\* path that resolves to a location outside the root directory, a sibling
\* directory whose name starts with the root's name included.
C17_OutsideRootRefused ==
    (pc = "Summarizing" /\ tool_name = JStr("read_file") /\ ~InsideRoot(Resolved)) =>
        tool_result = "Access denied: you can only read files inside the project folder."

\* C18: in backend-driven mode the prompt the backend has received for the decision
\* is the compacted transcript followed by the new user turn and the instruction to
\* reply in JSON: its transcript part is the transcript as the call's compaction
\* leaves it.
C18_DecisionPromptCompacted ==
    (Remote /\ pc = "Decided") => prompt = DecisionPrompt(dialogue, user_message)

\* C19 as stated: from the start of a turn until its final append no step changes
\* the transcript.
C19_NoChangeMidTurn ==
    [][(pc \notin {"Idle", "Done"} /\ pc' # "Done") => dialogue' = dialogue]_vars

\* C19: a step changes the transcript only if it is the final append of a turn
\* (the lines of the user message and the reply) or a backend call of a
\* backend-driven turn that finds the transcript over the budget and compacts it.
\* The planner, the dispatch on the action, tool execution, the clock and the
\* start of a turn never change it, and a rule-based turn changes it only by
\* the final append.
C19_TranscriptChangesInTurn ==
    [][dialogue' # dialogue =>
          \/ /\ pc # "Done"
             /\ pc' = "Done"
             /\ dialogue' = dialogue \o "User: " \o user_message \o "\n"
                            \o "Assistant: " \o reply_text' \o "\n"
          \/ /\ Remote
             /\ pc \in {"Deciding", "Summarizing"}
             /\ pc' \in {"Decided", "Summarized"}
             /\ calls' = calls + 1
             /\ Len(dialogue) > max_dialogue_chars
             /\ dialogue' = SystemInstruction \o CompactionNotice
                            \o LastChars(dialogue, TailChars)
      ]_vars

\* the decision call of this turn has compacted the transcript the prompt was
\* built from
C19_CompactedMidTurn ==
    /\ Remote
    /\ pc = "Decided"
    /\ Len(prompt.transcript) > max_dialogue_chars
    /\ dialogue # prompt.transcript

\* the keys of the JSON object o
Keys(o) == {o.items[i].k : i \in 1..Len(o.items)}

\* the names in the sequence params
Names(params) == {params[i] : i \in 1..Len(params)}

\* C20: a tool object the rule-based planner emits names a registered tool and
\* carries exactly the named arguments the tool declares, with a non-empty note
\* for remember_info; the dispatcher then runs the tool and returns neither the
\* unknown-tool text nor an argument-mismatch text.
C20_PlannerCallsBind ==
    (~Remote /\ ToolDecided) =>
        /\ Registered(tool_name)
        /\ args.ty = "obj"
        /\ Keys(args) = Names(TOOLS[tool_name.s])
        /\ Len(args.items) = Len(TOOLS[tool_name.s])
        /\ tool_name.s = "remember_info" =>
              (Get(args, "note").ty = "str" /\ Get(args, "note").s # "")
        /\ pc # "Raised"
        /\ pc = "Done" =>
              /\ tool_runs = 1
              /\ ~StartsWith(tool_result, "Error: tool '")
              /\ ~StartsWith(tool_result, "Error calling tool '")

\* remember_info has run on a message that is nothing but the trigger phrase
C20_BareRememberRan ==
    /\ ~Remote
    /\ pc = "Done"
    /\ user_message = "remember that "
    /\ tool_name = JStr("remember_info")
    /\ Get(args, "note") = JStr("remember that ")
    /\ tool_runs = 1

\* C21: with the default budget of 8000 the transcript a compaction produces is
\* within the budget, so compacting it again changes nothing: after every step
\* that compacts, and in every state, a compaction of the compacted transcript is
\* the compacted transcript.
C21_CompactionIdempotent ==
    [][/\ (calls' = calls + 1 /\ dialogue' # dialogue) =>
             /\ Len(dialogue') <= 8000
             /\ _compact_context(dialogue') = dialogue'
       /\ _compact_context(_compact_context(dialogue)) = _compact_context(dialogue)
      ]_vars

\* the summarization call of a turn has compacted again the transcript that the
\* decision call of the same turn had compacted, and left it as it was
C21_CompactedAgainInTurn ==
    /\ Remote
    /\ pc = "Summarized"
    /\ turns = 2
    /\ calls = 2
    /\ compactions = 1
    /\ Len(prompt.transcript) = Len(SystemInstruction) + Len(CompactionNotice) + TailChars
    /\ dialogue = prompt.transcript

\* the arguments of the decided tool call are an object whose keys are the
\* parameters the registered tool declares
Binds == args.ty = "obj" /\ Keys(args) = Names(TOOLS[tool_name.s])

\* C22: when the dispatcher is given a tool name that is not in the registry, or
\* arguments that do not match the parameters of the named tool, no tool body runs
\* and the note list and the reminder list stay as they are; no other step of a
\* turn changes them either, so they are as they were before the turn.
C22_FailedDispatchLeavesFiles ==
    [][/\ (pc = "ToolExecuting" /\ (~Registered(tool_name) \/ ~Binds)) =>
             /\ memory' = memory
             /\ reminders' = reminders
             /\ tool_runs' = tool_runs
       /\ pc \in {"Deciding", "Decided", "Responding", "Summarizing", "Summarized"} =>
             /\ memory' = memory
             /\ reminders' = reminders
      ]_vars

\* a turn has ended whose call of set_reminder lacked minutes_from_now
C22_ReminderCallMismatched ==
    /\ Remote
    /\ pc = "Done"
    /\ tool_name = JStr("set_reminder")
    /\ ~Binds
    /\ StartsWith(tool_result, "Error calling tool 'set_reminder': set_reminder() missing 1 "
                               \o "required positional argument: 'minutes_from_now'")
    /\ tool_runs = 0
    /\ reminders = JList(<<>>)
=============================================================================
